---- MODULE Spec2Model ----
(***************************************************************************)
(* Model of MUSIC_PRODUCER_SEARCH.py: one run of main(), which resolves a  *)
(* producer name to an artist id (find_producer_id), pages through the     *)
(* artist's songs (fetch_all_songs_for_artist), fetches every song's       *)
(* detail and keeps the ones crediting the producer                        *)
(* (filter_songs_by_producer) and writes the kept records as CSV           *)
(* (save_to_csv).                                                          *)
(*                                                                         *)
(* Text is modelled as a sequence of one-character strings, so that        *)
(* lower(), the substring test, "; ".join and the csv module's quoting are *)
(* computed character by character.  A Python dict whose key order matters *)
(* (an output record) is a sequence of <<key, value>> pairs.               *)
(***************************************************************************)
EXTENDS Integers, Sequences, FiniteSets, TLC

(***************************************************************************)
(* Bounds of the model.                                                    *)
(***************************************************************************)
\* longest list of hits the search endpoint returns
MaxHits == 2
\* song identifiers are 1..MaxSong; a catalog lists each song at most once
MaxSong == 3
\* longest producer_artists list of a song detail
MaxProducers == 2

\* the per_page parameter of every page request
PER_PAGE == 50
\* the page the paginator asks for first
FirstPage == 1

(***************************************************************************)
(* Characters and text.                                                    *)
(***************************************************************************)
CR == "\r"
LF == "\n"
QUOTE == "\""
COMMA == ","

UpperChars == <<"A","B","C","D","E","F","G","H","I","J","K","L","M",
                "N","O","P","Q","R","S","T","U","V","W","X","Y","Z">>
LowerChars == <<"a","b","c","d","e","f","g","h","i","j","k","l","m",
                "n","o","p","q","r","s","t","u","v","w","x","y","z">>

\* str.lower() on one character
LowerChar(c) ==
    IF \E i \in 1..26 : UpperChars[i] = c
    THEN LowerChars[CHOOSE i \in 1..26 : UpperChars[i] = c]
    ELSE c

\* a lower() that leaves the text as it is: the match becomes case-sensitive
Lower_Unchanged(s) == s

\* str.lower()
Lower(s) == [i \in 1..Len(s) |-> LowerChar(s[i])]

\* Python's  needle in hay  on str
Contains(hay, needle) ==
    \E i \in 0..(Len(hay) - Len(needle)) :
        SubSeq(hay, i + 1, i + Len(needle)) = needle

Digits == <<"0","1","2","3","4","5","6","7","8","9">>

RECURSIVE IntToStr(_)
\* str(n) for n >= 0
IntToStr(n) ==
    IF n < 10 THEN <<Digits[n + 1]>>
    ELSE IntToStr(n \div 10) \o <<Digits[(n % 10) + 1]>>

RECURSIVE Join(_, _)
\* sep.join(parts)
Join(sep, parts) ==
    IF parts = <<>> THEN <<>>
    ELSE IF Len(parts) = 1 THEN parts[1]
    ELSE parts[1] \o sep \o Join(sep, Tail(parts))

RECURSIVE Concat(_)
\* the concatenation of a sequence of sequences
Concat(ss) == IF ss = <<>> THEN <<>> ELSE Head(ss) \o Concat(Tail(ss))

(***************************************************************************)
(* JSON values a response holds and Python values a record holds.          *)
(***************************************************************************)
Absent == [t |-> "absent"]
None == [t |-> "none"]
StrV(s) == [t |-> "str", s |-> s]
IntV(n) == [t |-> "int", n |-> n]

\* a test  v is not None  in place of truthiness: the empty string passes
Truthy_NotNone(v) == v.t \notin {"absent", "none"}

\* Python truthiness of a value
Truthy(v) ==
    CASE v.t = "absent" -> FALSE
      [] v.t = "none" -> FALSE
      [] v.t = "str" -> v.s # <<>>
      [] v.t = "int" -> v.n # 0

(***************************************************************************)
(* An ordered dict: a sequence of <<key, value>> pairs, keys text.         *)
(***************************************************************************)
\* list(d.keys()), in insertion order
Keys(d) == [i \in 1..Len(d) |-> d[i][1]]

\* d.get(key, default)
DictGet(d, key, default) ==
    IF \E i \in 1..Len(d) : d[i][1] = key
    THEN d[CHOOSE i \in 1..Len(d) : d[i][1] = key][2]
    ELSE default

(***************************************************************************)
(* The csv module's writer with the default dialect: delimiter ",",        *)
(* quotechar '"', doublequote, QUOTE_MINIMAL, lineterminator "\r\n".       *)
(***************************************************************************)
\* a character that makes the writer quote the field holding it
NeedsQuote(c) == c \in {COMMA, QUOTE, CR, LF}

\* the text the writer emits for a value: None as "", a str as it is, str(v) otherwise
FieldText(v) ==
    CASE v.t = "none" -> <<>>
      [] v.t = "str" -> v.s
      [] v.t = "int" -> IntToStr(v.n)

\* one field as written: quoted when it holds a special character, quotes doubled
CsvField(s) ==
    IF \E i \in 1..Len(s) : NeedsQuote(s[i])
    THEN <<QUOTE>>
         \o Concat([i \in 1..Len(s) |-> IF s[i] = QUOTE THEN <<QUOTE, QUOTE>> ELSE <<s[i]>>])
         \o <<QUOTE>>
    ELSE s

\* writer.writerow(values): the fields joined by the delimiter, then the terminator
CsvLine(values) ==
    IF Len(values) = 1 /\ FieldText(values[1]) = <<>>
    THEN <<QUOTE, QUOTE, CR, LF>>
    ELSE Join(<<COMMA>>, [i \in 1..Len(values) |-> CsvField(FieldText(values[i]))])
         \o <<CR, LF>>

\* DictWriter._dict_to_list: the row's values in fieldnames order, restval ""
DictToList(fieldnames, rowdict) ==
    [i \in 1..Len(fieldnames) |-> DictGet(rowdict, fieldnames[i], StrV(<<>>))]

\* the rows alone, without writeheader()
CsvText_NoHeader(records) ==
    Concat([k \in 1..Len(records) |-> CsvLine(DictToList(Keys(records[1]), records[k]))])

\* the text save_to_csv writes for a non-empty list of records
CsvText(records) ==
    LET fieldnames == Keys(records[1])
    IN  CsvLine([i \in 1..Len(fieldnames) |-> StrV(fieldnames[i])])
        \o Concat([k \in 1..Len(records) |-> CsvLine(DictToList(fieldnames, records[k]))])

(***************************************************************************)
(* The texts the runs use.                                                 *)
(***************************************************************************)
T_MetroBoomin == <<"M","e","t","r","o"," ","B","o","o","m","i","n">>
T_metro == <<"m","e","t","r","o">>
T_Mike == <<"M","i","k","e">>
T_MIKEY == <<"M","I","K","E","Y">>
T_Zed == <<"Z","e","d">>
T_MikeySmith == <<"M","i","k","e","y"," ","S","m","i","t","h">>
T_mike == <<"m","i","k","e">>
T_Bob == <<"B","o","b">>
T_Ann == <<"A","n","n">>
T_old == <<"o","l","d",LF>>
T_tok == <<"t","o","k">>
T_envtok == <<"e","n","v">>

K_song_id == <<"s","o","n","g","_","i","d">>
K_title == <<"t","i","t","l","e">>
K_primary_artist == <<"p","r","i","m","a","r","y","_","a","r","t","i","s","t">>
K_producers == <<"p","r","o","d","u","c","e","r","s">>
K_release_date == <<"r","e","l","e","a","s","e","_","d","a","t","e">>
K_url == <<"u","r","l">>

(***************************************************************************)
(* What the remote API holds: the hits of the search, the artist's catalog *)
(* as pages, and one detail record per song.                               *)
(***************************************************************************)
SongIds == 1..MaxSong

\* artist objects, as primary_artist of a hit and as entries of producer_artists
A_Metro == [id |-> 42, name |-> T_MetroBoomin]
A_Mikey == [id |-> 7, name |-> T_MikeySmith]
A_mike == [id |-> 9, name |-> T_mike]
A_Bob == [id |-> 5, name |-> T_Bob]

HitArtists == {A_Metro, A_Mikey, A_mike, A_Bob}
Credited == {A_Metro, A_Mikey}

\* the producer names a run may be started with
ProducerNames == {T_MetroBoomin, T_metro, T_Mike, T_MIKEY, T_Zed}

\* the hit lists the search may return, each hit given by its primary artist
HitLists == UNION {[1..n -> HitArtists] : n \in 0..MaxHits}

\* song lists without repetition
SongLists ==
    {L \in UNION {[1..n -> SongIds] : n \in 0..MaxSong} :
        \A i, j \in 1..Len(L) : L[i] = L[j] => i = j}

RECURSIVE PagesOf(_, _)
\* the list L served as pages that end after the positions in cuts (and at the end of L)
PagesOf(L, cuts) ==
    IF L = <<>> THEN <<>>
    ELSE LET ends == (cuts \cap (1..Len(L))) \cup {Len(L)}
             c == CHOOSE x \in ends : \A y \in ends : x <= y
         IN  <<[i \in 1..c |-> [id |-> L[i]]]>>
             \o PagesOf(SubSeq(L, c + 1, Len(L)), {x - c : x \in {y \in cuts : y > c}})

\* every way to serve a song list as non-empty pages
Catalogs ==
    {PagesOf(L, cuts) : L \in SongLists, cuts \in SUBSET (1..(MaxSong - 1))}

\* the producer_artists field of a detail: absent, or a list of artist objects
ProducerFields ==
    {Absent} \cup {[t |-> "list", list |-> l] :
                      l \in UNION {[1..n -> Credited] : n \in 0..MaxProducers}}

\* title and release date of a detail, by variant
DetailTitle(v) ==
    CASE v = 1 -> <<"S","o">>
      [] v = 2 -> <<"a",COMMA,"b">>
      [] v = 3 -> <<"q",QUOTE>>
      [] OTHER -> <<"x",LF,"y">>

DetailDate(v) ==
    CASE v = 1 -> StrV(<<"2","0","2","0">>)
      [] v = 2 -> Absent
      [] v = 3 -> None
      [] OTHER -> StrV(<<>>)

Variants == 1..4

\* the song object of the detail endpoint
Detail(sid, v, pf) ==
    [title |-> DetailTitle(v),
     primary_artist |-> [name |-> T_Ann],
     producer_artists |-> pf,
     release_date |-> DetailDate(v),
     url |-> <<"u","/">> \o IntToStr(sid)]

DetailValues(sid) == {Detail(sid, v, pf) : v \in Variants, pf \in ProducerFields}

\* the details of the scenario: artist 42 is credited on songs 1 and 3 only
ScenarioDetails ==
    [sid \in SongIds |->
        CASE sid = 1 -> Detail(1, 1, [t |-> "list", list |-> <<A_Metro>>])
          [] sid = 2 -> Detail(2, 2, [t |-> "list", list |-> <<A_Mikey>>])
          [] sid = 3 -> Detail(3, 3, [t |-> "list", list |-> <<A_Mikey, A_Metro>>])
          [] OTHER -> Detail(sid, 1, Absent)]

\* the catalog of the scenario: songs 1 and 2, then song 3, then an empty page
ScenarioPages == <<<<[id |-> 1], [id |-> 2]>>, <<[id |-> 3]>>>>

\* the page the listing endpoint answers for page number k
ServePage(api, k) ==
    IF k <= Len(api.pages) THEN api.pages[k]
    ELSE IF api.endless THEN api.pages[Len(api.pages)]
    ELSE <<>>

(***************************************************************************)
(* The functions of the script, as far as they compute.                    *)
(***************************************************************************)
RECURSIVE FirstMatch(_, _, _)
\* the loop of find_producer_id from hit i on: the index of the first hit whose
\* primary artist's name, lowered, contains the lowered name; 0 when the loop ends
FirstMatch(name, hits, i) ==
    IF i > Len(hits) THEN 0
    ELSE IF Contains(Lower(hits[i].name), Lower(name)) THEN i
    ELSE FirstMatch(name, hits, i + 1)

\* find_producer_id on the hits of a successful search: the (id, name) returned,
\* or the ValueError raised
find_producer_id(name, hits) ==
    LET i == FirstMatch(name, hits, 1)
    IN  IF i = 0 THEN [found |-> FALSE]
        ELSE [found |-> TRUE, id |-> hits[i].id, name |-> hits[i].name]

\* detail.get("producer_artists", [])
ProducerArtists(detail) ==
    IF detail.producer_artists.t = "absent" THEN <<>> ELSE detail.producer_artists.list

\* [p["name"] for p in detail.get("producer_artists", [])]
ProducersOf(detail) ==
    [i \in 1..Len(ProducerArtists(detail)) |-> ProducerArtists(detail)[i].name]

\* [p["id"] for p in detail.get("producer_artists", [])]
ProducerIdsOf(detail) ==
    [i \in 1..Len(ProducerArtists(detail)) |-> ProducerArtists(detail)[i].id]

\* a test of the first credit alone
IsCredited_FirstOnly(producer_id, detail) ==
    /\ ProducerIdsOf(detail) # <<>>
    /\ ProducerIdsOf(detail)[1] = producer_id

\* producer_id in producer_ids
IsCredited(producer_id, detail) ==
    \E i \in 1..Len(ProducerIdsOf(detail)) : ProducerIdsOf(detail)[i] = producer_id

\* detail.get("release_date") without the  or "": a missing date stays None
ReleaseDateOf_Raw(detail) ==
    IF detail.release_date.t = "absent" THEN None ELSE detail.release_date

\* detail.get("release_date") or ""
ReleaseDateOf(detail) ==
    IF Truthy(detail.release_date) THEN detail.release_date ELSE StrV(<<>>)

\* the dict filter_songs_by_producer appends for a credited song
OutputRecord(sid, detail) ==
    << <<K_song_id, IntV(sid)>>,
       <<K_title, StrV(detail.title)>>,
       <<K_primary_artist, StrV(detail.primary_artist.name)>>,
       <<K_producers, StrV(Join(<<";", " ">>, ProducersOf(detail)))>>,
       <<K_release_date, ReleaseDateOf(detail)>>,
       <<K_url, StrV(detail.url)>> >>

\* a loop body that appends whatever the credits are
FilterStep_KeepAll(acc, producer_id, sid, detail) == Append(acc, OutputRecord(sid, detail))

\* one pass of the loop body of filter_songs_by_producer after a successful fetch
FilterStep(acc, producer_id, sid, detail) ==
    IF IsCredited(producer_id, detail) THEN Append(acc, OutputRecord(sid, detail)) ELSE acc

\* an assignment in place of extend(): only the last page is kept
Extend_Replace(songs_so_far, songs) == songs

\* all_songs.extend(songs)
Extend(songs_so_far, songs) == songs_so_far \o songs

\* a step of two: every other page is skipped
NextPage_Skip(p) == p + 2

\* page += 1
NextPage(p) == p + 1

\* the list walked from its end
StubAt_Reversed(song_list, i) == song_list[Len(song_list) - i + 1]

\* the s the loop  for s in song_list  visits in its i-th pass
StubAt(song_list, i) == song_list[i]

\* args.token: the --token option, and the environment variable when it is not given
ArgsToken(cli, environ) == IF cli.t = "none" THEN environ ELSE cli

(***************************************************************************)
(* The runs the model starts from: command line, environment, what the API *)
(* holds and the output file before the run.                               *)
(***************************************************************************)
NoFile == [exists |-> FALSE]
FileOf(text) == [exists |-> TRUE, text |-> text]

Run(cli, environ, producer, hits, pages, endless, details, file0) ==
    [cli |-> cli, environ |-> environ, producer |-> producer,
     api |-> [hits |-> hits, pages |-> pages, endless |-> endless, details |-> details],
     file0 |-> file0]

\* a few runs of every kind: with and without a credential, a name that is found
\* and one that is not, an empty catalog, the scenario's, one that never ends and
\* one listing a song twice
BaseRuns ==
    {Run(c, e, n, <<A_Metro>>, p[1], p[2], ScenarioDetails, f) :
        c \in {None, StrV(<<>>), StrV(T_tok)},
        e \in {None, StrV(<<>>), StrV(T_envtok)},
        n \in {T_MetroBoomin, T_Zed},
        p \in {<<ScenarioPages, FALSE>>, <<<<>>, FALSE>>,
               <<<< <<[id |-> 1]>> >>, TRUE>>,
               <<<< <<[id |-> 1]>>, <<[id |-> 1]>> >>, FALSE>>},
        f \in {NoFile, FileOf(T_old)}}

\* every name against every hit list
ResolveRuns ==
    {Run(StrV(T_tok), None, n, h, ScenarioPages, FALSE, ScenarioDetails, NoFile) :
        n \in ProducerNames, h \in HitLists}

\* every catalog, ending or not
PageRuns ==
    {Run(StrV(T_tok), None, T_MetroBoomin, <<A_Metro>>, p, FALSE, ScenarioDetails, f) :
        p \in Catalogs, f \in {NoFile, FileOf(T_old)}}
    \cup
    {Run(StrV(T_tok), None, T_MetroBoomin, <<A_Metro>>, p, TRUE, ScenarioDetails, NoFile) :
        p \in Catalogs \ {<<>>}}

\* every detail of songs 1 and 2, in both orders, for two producers
FilterRuns ==
    {Run(StrV(T_tok), None, n, <<A_Mikey, A_Metro>>, p,
         FALSE,
         [sid \in SongIds |-> IF sid = 1 THEN d1 ELSE IF sid = 2 THEN d2
                              ELSE ScenarioDetails[sid]],
         NoFile) :
        n \in {T_MetroBoomin, T_Mike},
        p \in {<< <<[id |-> 1], [id |-> 2]>> >>, << <<[id |-> 2]>>, <<[id |-> 1]>> >>},
        d1 \in DetailValues(1), d2 \in DetailValues(2)}

(***************************************************************************)
(* The state of one run.                                                   *)
(***************************************************************************)
VARIABLES
    run,            \* command line, environment, API content, file before the run
    pc,             \* where main() is: "main", "find", "fetch", "filter", "save",
                    \* "done", or "error" once the run has ended in an error
    err,            \* the error that ended the run, "none" while there is none
    token,          \* args.token once the arguments are parsed
    found,          \* main's (pid, pname) once find_producer_id has returned
    page,           \* fetch_all_songs_for_artist: page
    all_songs,      \* fetch_all_songs_for_artist: all_songs
    main_all_songs, \* main's all_songs once fetch_all_songs_for_artist has returned
    producer_id,    \* filter_songs_by_producer: producer_id once it is called
    idx,            \* filter_songs_by_producer: position of s in song_list
    filtered,       \* filter_songs_by_producer: filtered
    produced,       \* main's produced once filter_songs_by_producer has returned
    file,           \* the output file
    log,            \* the requests sent and the file writes made, in order
    printed         \* the messages printed, in order

vars == <<run, pc, err, token, found, page, all_songs, main_all_songs, producer_id,
          idx, filtered, produced, file, log, printed>>

Unset == [set |-> FALSE]
SetTo(v) == [set |-> TRUE, v |-> v]

\* the paginator's loop has no bound of its own; the model stops a catalog that
\* never ends after this many page requests
MaxPageRequests == MaxSong + 2

InitWith(runs) ==
    /\ run \in runs
    /\ pc = "main"
    /\ err = "none"
    /\ token = Unset
    /\ found = Unset
    /\ page = 0
    /\ all_songs = <<>>
    /\ main_all_songs = Unset
    /\ producer_id = Unset
    /\ idx = 0
    /\ filtered = <<>>
    /\ produced = Unset
    /\ file = run.file0
    /\ log = <<>>
    /\ printed = <<>>

Init == InitWith(BaseRuns \cup ResolveRuns)
InitPages == InitWith(BaseRuns \cup PageRuns)
InitFilter == InitWith(BaseRuns \cup FilterRuns)

\* an exception that is recorded and swallowed: the run stays where it is
Raise_Swallowed(e) ==
    /\ err' = e
    /\ UNCHANGED pc

\* an exception nobody catches ends the run
Raise(e) ==
    /\ pc' = "error"
    /\ err' = e

\* main up to the token check: without a token p.error() ends the run
ParseArgs ==
    /\ pc = "main"
    /\ token' = SetTo(ArgsToken(run.cli, run.environ))
    /\ IF ~Truthy(ArgsToken(run.cli, run.environ))
       THEN /\ Raise("usage")
            /\ UNCHANGED printed
       ELSE /\ pc' = "find"
            /\ printed' = Append(printed, "looking_up")
            /\ UNCHANGED err
    /\ UNCHANGED <<run, found, page, all_songs, main_all_songs, producer_id, idx,
                   filtered, produced, file, log>>

\* find_producer_id: the search request, then the scan of its hits
FindProducer ==
    /\ pc = "find"
    /\ \E ok \in BOOLEAN :
        /\ log' = Append(log, [op |-> "search", q |-> run.producer, ok |-> ok])
        /\ IF ~ok
           THEN /\ Raise("transport")
                /\ UNCHANGED <<found, page, printed>>
           ELSE LET r == find_producer_id(run.producer, run.api.hits)
                IN  IF ~r.found
                    THEN /\ Raise("not_found")
                         /\ UNCHANGED <<found, page, printed>>
                    ELSE /\ found' = SetTo([pid |-> r.id, pname |-> r.name])
                         /\ printed' = Append(printed, "found")
                         /\ page' = FirstPage
                         /\ pc' = "fetch"
                         /\ UNCHANGED err
    /\ UNCHANGED <<run, token, all_songs, main_all_songs, producer_id, idx, filtered,
                   produced, file>>

\* fetch_all_songs_for_artist: one pass of the loop; on the empty page the
\* function returns, and main goes on into filter_songs_by_producer, which
\* returns at once when there is no song.  The time.sleep(0.5) that ends a
\* pass changes no state and has no part in the model.
FetchPage ==
    /\ pc = "fetch"
    /\ page <= MaxPageRequests
    /\ \E ok \in BOOLEAN :
        /\ log' = Append(log, [op |-> "page", artist |-> found.v.pid, page |-> page,
                               per_page |-> PER_PAGE, ok |-> ok])
        /\ IF ~ok
           THEN /\ Raise("transport")
                /\ UNCHANGED <<page, all_songs, main_all_songs, producer_id, idx,
                               produced, printed>>
           ELSE LET songs == ServePage(run.api, page)
                IN  IF songs = <<>>
                    THEN /\ main_all_songs' = SetTo(all_songs)
                         /\ producer_id' = SetTo(found.v.pid)
                         /\ idx' = 1
                         /\ IF all_songs = <<>>
                            THEN /\ produced' = SetTo(<<>>)
                                 /\ printed' = printed \o <<"got", "filtering", "count", "writing">>
                                 /\ pc' = "save"
                            ELSE /\ printed' = printed \o <<"got", "filtering">>
                                 /\ pc' = "filter"
                                 /\ UNCHANGED produced
                         /\ UNCHANGED <<page, all_songs, err>>
                    ELSE /\ all_songs' = Extend(all_songs, songs)
                         /\ page' = NextPage(page)
                         /\ UNCHANGED <<pc, err, main_all_songs, producer_id, idx,
                                        produced, printed>>
    /\ UNCHANGED <<run, token, found, filtered, file>>

\* filter_songs_by_producer: one pass of the loop; after the last song the
\* function returns.  The time.sleep(0.2) that ends a pass changes no state.
FetchDetail ==
    /\ pc = "filter"
    /\ idx <= Len(main_all_songs.v)
    /\ LET sid == StubAt(main_all_songs.v, idx).id
       IN  \E ok \in BOOLEAN :
            /\ log' = Append(log, [op |-> "detail", sid |-> sid, ok |-> ok])
            /\ IF ~ok
               THEN /\ Raise("transport")
                    /\ UNCHANGED <<idx, filtered, produced, printed>>
               ELSE LET kept == FilterStep(filtered, producer_id.v, sid, run.api.details[sid])
                    IN  /\ filtered' = kept
                        /\ idx' = idx + 1
                        /\ IF idx = Len(main_all_songs.v)
                           THEN /\ produced' = SetTo(kept)
                                /\ printed' = printed \o <<"count", "writing">>
                                /\ pc' = "save"
                           ELSE UNCHANGED <<produced, printed, pc>>
                        /\ UNCHANGED err
    /\ UNCHANGED <<run, token, found, page, all_songs, main_all_songs, producer_id, file>>

\* the lines save_to_csv has written when the write fails after n of them
CsvLinesWritten(records, n) ==
    IF n = 0 THEN <<>>
    ELSE LET fieldnames == Keys(records[1])
         IN  CsvLine([i \in 1..Len(fieldnames) |-> StrV(fieldnames[i])])
             \o Concat([k \in 1..(n - 1) |-> CsvLine(DictToList(fieldnames, records[k]))])

\* save_to_csv, and the end of main.  Opening the file may fail, which leaves it
\* as it was; a write may fail, which leaves the lines written before it.
SaveToCsv ==
    /\ pc = "save"
    /\ IF produced.v = <<>>
       THEN /\ printed' = printed \o <<"no_records", "done">>
            /\ pc' = "done"
            /\ UNCHANGED <<file, log, err>>
       ELSE \E io \in {"ok", "open_fails", "write_fails"} :
            CASE io = "ok" ->
                    /\ file' = FileOf(CsvText(produced.v))
                    /\ log' = Append(log, [op |-> "write", ok |-> TRUE])
                    /\ printed' = Append(printed, "done")
                    /\ pc' = "done"
                    /\ UNCHANGED err
              [] io = "open_fails" ->
                    /\ Raise("io")
                    /\ log' = Append(log, [op |-> "write", ok |-> FALSE])
                    /\ UNCHANGED <<file, printed>>
              [] io = "write_fails" ->
                    /\ \E n \in 0..Len(produced.v) :
                          file' = FileOf(CsvLinesWritten(produced.v, n))
                    /\ Raise("io")
                    /\ log' = Append(log, [op |-> "write", ok |-> FALSE])
                    /\ UNCHANGED printed
    /\ UNCHANGED <<run, token, found, page, all_songs, main_all_songs, producer_id,
                   idx, filtered, produced>>

Next ==
    \/ ParseArgs
    \/ FindProducer
    \/ FetchPage
    \/ FetchDetail
    \/ SaveToCsv

Spec == Init /\ [][Next]_vars
SpecPages == InitPages /\ [][Next]_vars
SpecFilter == InitFilter /\ [][Next]_vars

(***************************************************************************)
(* What the claims speak of.                                               *)
(***************************************************************************)
\* the entries of the log with the given op, in order
LogOf(op) == SelectSeq(log, LAMBDA e : e.op = op)

\* the search request has been answered
SearchAnswered == Len(log) >= 1 /\ log[1].op = "search" /\ log[1].ok

\* two characters that are the same letter, whatever their case
SameLetter(a, b) ==
    \/ a = b
    \/ \E i \in 1..26 : {a, b} = {UpperChars[i], LowerChars[i]}

\* needle occurs in hay, case ignored
OccursIgnoringCase(needle, hay) ==
    \E off \in 0..(Len(hay) - Len(needle)) :
        \A k \in 1..Len(needle) : SameLetter(hay[off + k], needle[k])

\* hit i of the search matches the producer name
HitMatches(i) == OccursIgnoringCase(run.producer, run.api.hits[i].name)

\* no credential is supplied: neither the option nor the environment holds a
\* non-empty token
NoCredential ==
    /\ run.cli \in {None, StrV(<<>>)}
    /\ run.environ \in {None, StrV(<<>>)}

(***************************************************************************)
(* C4: once the search has been answered, find_producer_id has returned    *)
(* the id and the exact name of the first hit, in the order of the         *)
(* response, whose primary artist's name contains the producer name, case  *)
(* ignored (an earlier partial match wins over a later exact one), and it  *)
(* has failed as not found exactly when no hit matches.                    *)
(***************************************************************************)
C4_FirstMatchingHitWins ==
    SearchAnswered =>
        /\ (err = "not_found") <=> (\A i \in 1..Len(run.api.hits) : ~HitMatches(i))
        /\ (err = "not_found") => ~found.set
        /\ (err # "not_found") =>
              /\ found.set
              /\ \E i \in 1..Len(run.api.hits) :
                    /\ HitMatches(i)
                    /\ \A j \in 1..(i - 1) : ~HitMatches(j)
                    /\ found.v.pid = run.api.hits[i].id
                    /\ found.v.pname = run.api.hits[i].name

\* "Mike" is resolved to "Mikey Smith", the first hit, though the second hit is
\* "mike", the name itself but for its case
C4_Witness ==
    /\ found.set
    /\ run.producer = T_Mike
    /\ run.api.hits = <<A_Mikey, A_mike>>
    /\ found.v.pid = 7
    /\ found.v.pname = T_MikeySmith

(***************************************************************************)
(* C8: without a credential the run ends in a usage error before any       *)
(* request is sent and before any file is written.                         *)
(***************************************************************************)
C8_NoCredentialNoActivity ==
    NoCredential =>
        /\ log = <<>>
        /\ file = run.file0
        /\ pc \in {"main", "error"}
        /\ pc = "error" => err = "usage"
        /\ ~found.set /\ ~produced.set

\* a run with an empty --token and an empty environment variable has ended
C8_Witness ==
    /\ run.cli = StrV(<<>>)
    /\ run.environ = StrV(<<>>)
    /\ pc = "error"
    /\ err = "usage"

(***************************************************************************)
(* C3: a failure before the export ends the run: after a name that no hit  *)
(* matches, or a failed search, page or detail request, nothing more is    *)
(* requested (no retry, no later stage), save_to_csv is not reached and    *)
(* the output file is as it was; main has got no catalog from a paginator  *)
(* that failed and no records from a filter that failed.                   *)
(***************************************************************************)
C3_FailureEndsTheRun ==
    /\ \A i \in 1..(Len(log) - 1) : log[i].ok
    /\ (\E i \in 1..Len(log) : log[i].op # "write" /\ ~log[i].ok) =>
            /\ pc = "error"
            /\ err = "transport"
    /\ (SearchAnswered /\ \A i \in 1..Len(run.api.hits) : ~HitMatches(i)) =>
            /\ pc = "error"
            /\ err = "not_found"
            /\ Len(log) = 1
    /\ err \in {"not_found", "transport"} =>
            /\ pc = "error"
            /\ file = run.file0
            /\ LogOf("write") = <<>>
            /\ ~produced.set
            /\ "writing" \notin {printed[i] : i \in 1..Len(printed)}
            /\ log[Len(log)].op = "search" => ~found.set
            /\ log[Len(log)].op = "page" => ~main_all_songs.set

\* a detail request has failed after another one had added a record
C3_Witness ==
    /\ err = "transport"
    /\ log[Len(log)].op = "detail"
    /\ Len(filtered) >= 1
    /\ run.file0 = FileOf(T_old)
    /\ file = run.file0

RECURSIVE ItemsBefore(_, _)
\* the number of items on the first p pages
ItemsBefore(pages, p) ==
    IF p = 0 THEN 0 ELSE ItemsBefore(pages, p - 1) + Len(pages[p])

(***************************************************************************)
(* C2: for a catalog served as pages 1..n of items followed by an empty    *)
(* page, fetch_all_songs_for_artist returns the pages' items in page       *)
(* order, each page's in its own order, none twice and none missing; the   *)
(* empty sequence when page 1 is empty.                                    *)
(***************************************************************************)
C2_CatalogIsPagesInOrder ==
    LET pages == run.api.pages
        n == Len(pages)
        P == LogOf("page")
    IN  /\ main_all_songs.set =>
            /\ Len(main_all_songs.v) = ItemsBefore(pages, n)
            /\ \A p \in 1..n : \A i \in 1..Len(pages[p]) :
                  main_all_songs.v[ItemsBefore(pages, p - 1) + i] = pages[p][i]
            /\ \A sid \in SongIds :
                  Cardinality({k \in 1..Len(main_all_songs.v) : main_all_songs.v[k].id = sid})
                  = Cardinality({pi \in (1..n) \X (1..MaxSong) :
                                    pi[2] <= Len(pages[pi[1]]) /\ pages[pi[1]][pi[2]].id = sid})
        /\ (~run.api.endless /\ Len(P) = n + 1 /\ P[n + 1].ok) => main_all_songs.set

\* a catalog of two items and then one has been fetched whole
C2_Witness ==
    /\ main_all_songs.set
    /\ Len(run.api.pages) = 2
    /\ Len(run.api.pages[1]) = 2
    /\ Len(main_all_songs.v) = 3
    /\ main_all_songs.v[1].id = 3

(***************************************************************************)
(* C9: the paginator asks for pages 1, 2, 3, ... in this order, none       *)
(* skipped or asked twice, always with per_page 50; it stops at the first  *)
(* empty page and asks nothing after it, so after n non-empty pages and an *)
(* empty one it returns after exactly n + 1 requests; it never returns     *)
(* when no page is empty.                                                  *)
(***************************************************************************)
C9_PagesInSequenceUntilEmpty ==
    LET P == LogOf("page")
    IN  /\ \A k \in 1..Len(P) : P[k].page = k /\ P[k].per_page = 50
        /\ \A k \in 1..(Len(P) - 1) : P[k].ok /\ ServePage(run.api, k) # <<>>
        /\ pc = "fetch" => page = Len(P) + 1
        /\ main_all_songs.set =>
              /\ Len(P) >= 1
              /\ P[Len(P)].ok
              /\ ServePage(run.api, Len(P)) = <<>>
              /\ Len(P) = Len(run.api.pages) + 1
        /\ run.api.endless => ~main_all_songs.set /\ pc \in {"main", "find", "fetch", "error"}

\* three non-empty pages and the empty one: four requests, and the paginator is back
C9_Witness ==
    /\ main_all_songs.set
    /\ Len(run.api.pages) = 3
    /\ Len(LogOf("page")) = 4

(***************************************************************************)
(* C10: the requests and the write come in stage order: one search, then   *)
(* the page requests, then one detail request per stub of the finished     *)
(* catalog, in catalog order and whether or not the song matches, then at  *)
(* most one write; no detail request before the empty page was seen, no    *)
(* write before the last detail was fetched; paginator and filter work     *)
(* with the id the resolver returned.                                      *)
(***************************************************************************)
C10_StagesInOrder ==
    LET S == LogOf("search")
        P == LogOf("page")
        D == LogOf("detail")
        W == LogOf("write")
    IN  /\ log = S \o P \o D \o W
        /\ Len(S) <= 1
        /\ Len(W) <= 1
        /\ pc \in {"fetch", "filter", "save", "done"} => Len(S) = 1
        /\ \A k \in 1..Len(P) : found.set /\ P[k].artist = found.v.pid
        /\ D # <<>> =>
              /\ main_all_songs.set
              /\ P[Len(P)].ok /\ ServePage(run.api, Len(P)) = <<>>
              /\ Len(D) <= Len(main_all_songs.v)
              /\ \A k \in 1..Len(D) : D[k].sid = main_all_songs.v[k].id
        /\ pc \in {"save", "done"} =>
              /\ main_all_songs.set /\ produced.set
              /\ Len(D) = Len(main_all_songs.v)
              /\ \A k \in 1..Len(D) : D[k].ok
        /\ W # <<>> => pc \in {"done", "error"} /\ produced.set /\ Len(D) = Len(main_all_songs.v)
        /\ producer_id.set => found.set /\ producer_id.v = found.v.pid

\* a finished run over three songs of which one was not kept
C10_Witness ==
    /\ pc = "done"
    /\ Len(LogOf("write")) = 1
    /\ Len(LogOf("detail")) = 3
    /\ Len(produced.v) = 2
    /\ Len(LogOf("page")) >= 3

\* a stub whose detail credits the producer the filter looks for
Credits(stub) ==
    LET d == run.api.details[stub.id]
    IN  /\ d.producer_artists.t = "list"
        /\ \E j \in 1..Len(d.producer_artists.list) :
              d.producer_artists.list[j].id = found.v.pid

\* the song ids of a sequence of output records
SongIdsOf(records) == [k \in 1..Len(records) |-> records[k][1][2].n]

(***************************************************************************)
(* C1: when every detail fetch has succeeded, filter_songs_by_producer     *)
(* returns one record for each stub whose detail lists the producer's id   *)
(* in producer_artists, none for a stub whose detail does not (or has no   *)
(* producer_artists), in the order of the stubs.                           *)
(***************************************************************************)
C1_FilterKeepsCreditedInOrder ==
    produced.set =>
        LET credited == SelectSeq(main_all_songs.v, Credits)
        IN  SongIdsOf(produced.v) = [k \in 1..Len(credited) |-> credited[k].id]

\* of two songs the first has no producer_artists and is left out, the second
\* lists the producer twice and is kept once
C1_Witness ==
    /\ produced.set
    /\ Len(main_all_songs.v) = 2
    /\ run.api.details[main_all_songs.v[1].id].producer_artists = Absent
    /\ run.api.details[main_all_songs.v[2].id].producer_artists.t = "list"
    /\ Len(run.api.details[main_all_songs.v[2].id].producer_artists.list) = 2
    /\ \A j \in 1..2 :
          run.api.details[main_all_songs.v[2].id].producer_artists.list[j].id = found.v.pid
    /\ SongIdsOf(produced.v) = <<main_all_songs.v[2].id>>

RECURSIVE SplitSemi(_, _)
\* the parts of s between the separators "; ", cur being the part read so far
SplitSemi(s, cur) ==
    IF s = <<>> THEN <<cur>>
    ELSE IF Len(s) >= 2 /\ s[1] = ";" /\ s[2] = " "
         THEN <<cur>> \o SplitSemi(SubSeq(s, 3, Len(s)), <<>>)
         ELSE SplitSemi(Tail(s), Append(cur, s[1]))

\* the names credited on a song, in the order of its detail
CreditedNames(sid) ==
    LET d == run.api.details[sid]
    IN  IF d.producer_artists.t = "list"
        THEN [j \in 1..Len(d.producer_artists.list) |-> d.producer_artists.list[j].name]
        ELSE <<>>

(***************************************************************************)
(* C7: every output record of a run has the fields song_id, title,         *)
(* primary_artist, producers, release_date, url in this order; producers   *)
(* is the song's credited names in credit order joined by "; ", and        *)
(* release_date is the empty string when the detail has no release date.   *)
(***************************************************************************)
C7_RecordsAreUniform ==
    /\ \A k \in 1..Len(filtered) :
          LET rec == filtered[k]
              sid == rec[1][2].n
              d == run.api.details[sid]
          IN  /\ [i \in 1..Len(rec) |-> rec[i][1]]
                    = <<K_song_id, K_title, K_primary_artist, K_producers,
                        K_release_date, K_url>>
              /\ rec[4][2].t = "str"
              /\ SplitSemi(rec[4][2].s, <<>>) = CreditedNames(sid)
              /\ Len(rec[4][2].s) = ItemsBefore(CreditedNames(sid), Len(CreditedNames(sid)))
                                       + 2 * (Len(CreditedNames(sid)) - 1)
              /\ rec[5][2].t = "str"
              /\ d.release_date.t \in {"absent", "none"} => rec[5][2].s = <<>>
              /\ d.release_date.t = "str" => rec[5][2].s = d.release_date.s
    /\ produced.set => produced.v = filtered

\* a record of a song with two credits and no release date, after another record
C7_Witness ==
    /\ Len(filtered) = 2
    /\ filtered[2][4][2].s = T_MikeySmith \o <<";", " ">> \o T_MetroBoomin
    /\ run.api.details[filtered[2][1][2].n].release_date = Absent
    /\ run.api.details[filtered[1][1][2].n].release_date = None

\* the number of quote characters among text[from..to]
QuotesIn(text, from, to) == Cardinality({p \in from..to : text[p] = QUOTE})

\* the least element of a non-empty set of numbers
Least(S) == CHOOSE x \in S : \A y \in S : x <= y

\* the content of a quoted field: of every pair of quotes one is dropped
Undouble(s) ==
    LET kept == {p \in 1..Len(s) : s[p] # QUOTE \/ QuotesIn(s, 1, p) % 2 = 1}
    IN  [k \in 1..Cardinality(kept) |->
            s[CHOOSE p \in kept : Cardinality({q \in kept : q < p}) = k - 1]]

RECURSIVE ReadCsv(_, _, _, _)
\* a CSV reader: the rows of text from position i on, each a sequence of field
\* texts, where a field starts at i; row holds the fields of the current row
\* read so far, rows the rows before it.  A field that starts with a quote
\* ends at its closing quote (a quote not followed by another one of a pair);
\* any other field ends before the next comma or CR LF.
ReadCsv(text, i, row, rows) ==
    IF i > Len(text)
    THEN IF row = <<>> THEN rows ELSE Append(rows, Append(row, <<>>))
    ELSE LET quoted == text[i] = QUOTE
             closes == {j \in (i + 1)..Len(text) :
                          /\ text[j] = QUOTE
                          /\ QuotesIn(text, i + 1, j) % 2 = 1
                          /\ (j = Len(text) \/ text[j + 1] # QUOTE)}
             close == IF closes = {} THEN Len(text) + 1 ELSE Least(closes)
             stops == {j \in i..Len(text) :
                          \/ text[j] = COMMA
                          \/ (text[j] = CR /\ j < Len(text) /\ text[j + 1] = LF)}
             stop == IF quoted THEN close + 1
                     ELSE IF stops = {} THEN Len(text) + 1 ELSE Least(stops)
             content == IF quoted THEN Undouble(SubSeq(text, i + 1, close - 1))
                        ELSE SubSeq(text, i, stop - 1)
         IN  IF stop > Len(text) THEN Append(rows, Append(row, content))
             ELSE IF text[stop] = COMMA
                  THEN ReadCsv(text, stop + 1, Append(row, content), rows)
             ELSE IF text[stop] = CR /\ stop < Len(text) /\ text[stop + 1] = LF
                  THEN IF stop + 2 > Len(text)
                       THEN Append(rows, Append(row, content))
                       ELSE ReadCsv(text, stop + 2, <<>>, Append(rows, Append(row, content)))
             ELSE ReadCsv(text, stop, Append(row, content), rows)

\* the rows a CSV reader finds in a text
CsvRows(text) == IF text = <<>> THEN <<>> ELSE ReadCsv(text, 1, <<>>, <<>>)

\* the lines of a text: each ends with a line feed
LineCount(text) == Cardinality({i \in 1..Len(text) : text[i] = LF})

\* the text of a record's value, as a reader of the file expects it
ValueText(v) ==
    IF v.t = "int" THEN IntToStr(v.n) ELSE IF v.t = "str" THEN v.s ELSE <<>>

\* the rows expected in the file for the records: the first record's field
\* names, then each record's values
ExpectedRows(records) ==
    <<[i \in 1..Len(records[1]) |-> records[1][i][1]]>>
    \o [k \in 1..Len(records) |-> [i \in 1..Len(records[k]) |-> ValueText(records[k][i][2])]]

\* the line feeds inside the values of the records
LineFeedsIn(records) ==
    Cardinality(UNION {UNION {{<<k, i, j>> :
                                  j \in {x \in 1..Len(ValueText(records[k][i][2])) :
                                            ValueText(records[k][i][2])[x] = LF}} :
                              i \in 1..Len(records[k])} :
                       k \in 1..Len(records)})

\* save_to_csv has returned without writing: nothing written, the notice printed
NothingWritten ==
    /\ file = run.file0
    /\ LogOf("write") = <<>>
    /\ \E i \in 1..Len(printed) : printed[i] = "no_records"

(***************************************************************************)
(* C5 as stated: with no record save_to_csv writes nothing and reports     *)
(* "no records"; with K >= 1 records the file has exactly K + 1 lines, the *)
(* header and one line per record in order.                                *)
(***************************************************************************)
C5_Stated_ExactlyKPlusOneLines ==
    (pc = "done") =>
        IF produced.v = <<>> THEN NothingWritten
        ELSE /\ file.exists
             /\ LineCount(file.text) = Len(produced.v) + 1
             /\ CsvRows(file.text) = ExpectedRows(produced.v)

(***************************************************************************)
(* C5 amended: with no record save_to_csv writes nothing and reports "no   *)
(* records"; with K >= 1 records the file holds exactly K + 1 CSV rows,    *)
(* the header with the first record's field names in its order and one row *)
(* per record in order; these are K + 1 lines of text when no value holds  *)
(* a line break, and every line feed inside a value, which is written as   *)
(* it is inside quotes, adds one line.                                     *)
(***************************************************************************)
C5_KPlusOneRows ==
    (pc = "done") =>
        IF produced.v = <<>> THEN NothingWritten
        ELSE /\ file.exists
             /\ Len(CsvRows(file.text)) = Len(produced.v) + 1
             /\ CsvRows(file.text) = ExpectedRows(produced.v)
             /\ LineCount(file.text) = Len(produced.v) + 1 + LineFeedsIn(produced.v)
             /\ Len(LogOf("write")) = 1

\* two records written, one with a comma in its title and one with a quote
C5_Witness ==
    /\ pc = "done"
    /\ Len(produced.v) = 2
    /\ produced.v[1][2][2].s = <<"a", COMMA, "b">>
    /\ produced.v[2][2][2].s = <<"q", QUOTE>>
    /\ LineCount(file.text) = 3

\* the scenario: "Metro Boomin" resolved to artist 42, songs 1 and 2 on page 1,
\* song 3 on page 2, artist 42 credited on songs 1 and 3 only
Scenario ==
    /\ run.producer = T_MetroBoomin
    /\ found.set
    /\ found.v.pid = 42
    /\ run.api.pages = <<<<[id |-> 1], [id |-> 2]>>, <<[id |-> 3]>>>>
    /\ ~run.api.endless
    /\ \A sid \in 1..3 : (sid \in {1, 3}) <=> (\E j \in 1..Len(CreditedNames(sid)) :
                             run.api.details[sid].producer_artists.list[j].id = 42)

(***************************************************************************)
(* C6: in the scenario a run whose requests and write all succeed ends     *)
(* normally, and the file then holds the header and exactly two rows, for  *)
(* song 1 and then for song 3.                                             *)
(***************************************************************************)
C6_ScenarioWritesSongs1And3 ==
    Scenario =>
        /\ pc = "error" => ~log[Len(log)].ok
        /\ pc = "done" =>
              /\ file.exists
              /\ LET rows == CsvRows(file.text)
                 IN  /\ Len(rows) = 3
                     /\ rows[1] = << <<"s","o","n","g","_","i","d">>, <<"t","i","t","l","e">>,
                                     <<"p","r","i","m","a","r","y","_","a","r","t","i","s","t">>,
                                     <<"p","r","o","d","u","c","e","r","s">>,
                                     <<"r","e","l","e","a","s","e","_","d","a","t","e">>,
                                     <<"u","r","l">> >>
                     /\ rows[2][1] = <<"1">>
                     /\ rows[3][1] = <<"3">>
                     /\ rows[2] = << <<"1">>, <<"S","o">>, <<"A","n","n">>, T_MetroBoomin,
                                     <<"2","0","2","0">>, <<"u","/","1">> >>
                     /\ rows[3] = << <<"3">>, <<"q",QUOTE>>, <<"A","n","n">>,
                                     T_MikeySmith \o <<";"," ">> \o T_MetroBoomin,
                                     <<>>, <<"u","/","3">> >>

\* the scenario's run has ended normally, over a file that existed before
C6_Witness ==
    /\ Scenario
    /\ pc = "done"
    /\ run.file0 = FileOf(T_old)
    /\ Len(LogOf("page")) = 3
    /\ Len(LogOf("detail")) = 3

====
